---------------------------- MODULE Spec2Model ----------------------------
(***************************************************************************)
(* Model of the GitHub profile card worker (src/src/index.ts): the Hono    *)
(* application with its analytics middleware, the health route, the        *)
(* /rpg/:username card route and the /preview/:username page route.        *)
(*                                                                         *)
(* index.ts imports ./github, ./cache, ./svg and ./templates/rpg; their    *)
(* behaviour is modelled from the specification (sections 4.1-4.3).        *)
(*                                                                         *)
(* Strings that the code inspects character by character (usernames, sz_*  *)
(* values) are sequences of one-character strings.                         *)
(***************************************************************************)
EXTENDS Integers, Sequences, FiniteSets, TLC

VARIABLES
    req,            \* per request: the handler's locals, position and effects
    cache,          \* the GITHUB_CACHE key/value store, keyed by username
    upstream,       \* the upstream profile API: username -> profile version
    changes,        \* how many times the upstream data has changed
    now,            \* the store's clock, in ticks
    analyticsBound  \* whether env.ANALYTICS is bound in this deployment

vars == <<req, cache, upstream, changes, now, analyticsBound>>

-----------------------------------------------------------------------------
(* Bounds of the model *)

NumReq == 2
MaxTime == 1
MaxChanges == 1
MaxSzLen == 3

Requests == 1..NumReq

-----------------------------------------------------------------------------
(* Values *)

\* A value that may be undefined or null (an absent query parameter, a cache
\* miss) is a set: empty when undefined, else holding the value.
None == {}
Some(v) == {v}
The(m) == CHOOSE v \in m : TRUE

Digits == {"0", "1", "2", "3"}
Letters == {"a", "b", "c"}

\* value of a decimal digit character
DigitVal(ch) ==
    CASE ch = "0" -> 0 [] ch = "1" -> 1 [] ch = "2" -> 2 [] ch = "3" -> 3
      [] OTHER -> 0

RECURSIVE Pow10(_)
Pow10(n) == IF n = 0 THEN 1 ELSE 10 * Pow10(n - 1)

-----------------------------------------------------------------------------
(* ./github: GITHUB_USERNAME_REGEX and fetchGitHubUser (spec 4.2) *)

MAX_USERNAME_LEN == 39

IsAlnum(ch) == ch \in Digits \cup Letters

\* alphanumeric and single embedded hyphens, not starting or ending with a
\* hyphen, bounded length
GITHUB_USERNAME_REGEX(s) ==
    /\ Len(s) >= 1
    /\ Len(s) <= MAX_USERNAME_LEN
    /\ IsAlnum(s[1])
    /\ \A i \in 1..Len(s) :
          \/ IsAlnum(s[i])
          \/ s[i] = "-" /\ i < Len(s) /\ IsAlnum(s[i + 1])

\* the usernames that requests carry: two well-formed, one violating the grammar
Usernames == { <<"a">>, <<"b", "-", "c">>, <<"b", "_", "!">> }

ValidUsernames == { u \in Usernames : GITHUB_USERNAME_REGEX(u) }

\* UserRecord: the profile of login u at version v of the upstream data
UserRecord(u, v) == [login |-> u, version |-> v]

NoResult == [success |-> FALSE, user |-> None, error |-> "none", status |-> 0,
             network |-> FALSE]

FetchOk(rec) == [success |-> TRUE, user |-> Some(rec), error |-> "none", status |-> 200,
                 network |-> TRUE]

FetchErr(kind, st, net) == [success |-> FALSE, user |-> None, error |-> kind,
                            status |-> st, network |-> net]

\* statuses an UpstreamError outcome may carry ("a generic 5xx/4xx")
UpstreamErrorStatuses == {500, 502}

\* fetchGitHubUser(username): the outcomes the call can return in the present
\* upstream state.  network says whether an upstream HTTP call was issued.
fetchGitHubUser(username) ==
    IF ~GITHUB_USERNAME_REGEX(username)
    THEN { FetchErr("InvalidUsername", 400, FALSE) }
    ELSE (IF upstream[username] > 0
          THEN { FetchOk(UserRecord(username, upstream[username])) }
          ELSE { FetchErr("NotFound", 404, TRUE) })
         \cup { FetchErr("RateLimited", 429, TRUE) }
         \cup { FetchErr("UpstreamError", st, TRUE) : st \in UpstreamErrorStatuses }

-----------------------------------------------------------------------------
(* ./cache: getCachedUser and setCachedUser (spec 4.1) *)

CACHE_TTL == 1

NoEntry == [user |-> None, expiresAt |-> 0, writer |-> 0]

\* getCachedUser(kv, username): the stored record while it is fresh; the backend
\* expires entries itself, and a backend error is swallowed as a miss.
\* failed: the backend read failed.
getCachedUser(username, failed) ==
    IF failed THEN None
    ELSE IF cache[username].user # None /\ now < cache[username].expiresAt
         THEN cache[username].user
         ELSE None

\* setCachedUser(kv, username, user) once the backend has applied it: the entry
\* under the username is replaced wholesale.  writer is the request whose
\* population this is (history, not program state).
setCachedUser(username, user, writer) ==
    [cache EXCEPT ![username] =
        [user |-> Some(user), expiresAt |-> now + CACHE_TTL, writer |-> writer]]

-----------------------------------------------------------------------------
(* ./svg: the font registry, and the property lookup FONTS[fontParam] *)

DEFAULT_FONT == "courier"

\* the registry's own keys
FONTS == { DEFAULT_FONT, "press-start-2p", "silkscreen" }

\* FONTS is a plain object (index.ts reads it with FONTS[key] and
\* Object.entries): a property read also finds what Object.prototype carries.
ObjectPrototypeProps ==
    { "constructor", "toString", "valueOf", "hasOwnProperty", "__proto__" }

\* truthiness of FONTS[key]: registry entries are objects, inherited
\* properties are functions or the prototype object
FontsLookup(key) == key \in FONTS \cup ObjectPrototypeProps

\* const font = fontParam && FONTS[fontParam] ? fontParam : DEFAULT_FONT
ValidateFont(fontParam) ==
    IF fontParam # None /\ The(fontParam) # "" /\ FontsLookup(The(fontParam))
    THEN The(fontParam)
    ELSE DEFAULT_FONT

-----------------------------------------------------------------------------
(* parseFloat and parseSizeOverride *)

SzChars == Digits \cup {".", "-", "a"}

\* numbers are exact decimal fractions num/den, den a power of ten
Num(n, d) == [num |-> n, den |-> d]
NumLess(x, y) == x.num * y.den < y.num * x.den

NaN == [num |-> 0, den |-> 0]
IsNaN(x) == x.den = 0

\* length of the run of decimal digits of s that starts at position p
RECURSIVE DigitRun(_, _)
DigitRun(s, p) ==
    IF p <= Len(s) /\ s[p] \in Digits THEN 1 + DigitRun(s, p + 1) ELSE 0

\* value of the n digits of s that start at position p
RECURSIVE DigitsValue(_, _, _)
DigitsValue(s, p, n) ==
    IF n = 0 THEN 0
    ELSE 10 * DigitsValue(s, p, n - 1) + DigitVal(s[p + n - 1])

\* parseFloat(s): the value of the longest prefix of s that is a decimal
\* literal (sign, digits, point, digits), NaN when there is none.  Characters
\* after that prefix are ignored.  The modelled alphabet has no whitespace, no
\* exponent and no "Infinity".
parseFloat(s) ==
    LET signLen == IF Len(s) >= 1 /\ s[1] = "-" THEN 1 ELSE 0
        intLen  == DigitRun(s, signLen + 1)
        dotPos  == signLen + intLen + 1
        hasDot  == dotPos <= Len(s) /\ s[dotPos] = "."
        fracLen == IF hasDot THEN DigitRun(s, dotPos + 1) ELSE 0
        mant    == DigitsValue(s, signLen + 1, intLen) * Pow10(fracLen)
                     + DigitsValue(s, dotPos + 1, fracLen)
    IN  IF intLen = 0 /\ fracLen = 0 THEN NaN
        ELSE Num((IF signLen = 1 THEN -1 ELSE 1) * mant, Pow10(fracLen))

SIZE_MIN == Num(3, 10)
SIZE_MAX == Num(2, 1)

\* parseSizeOverride(value): undefined for an absent or empty value, for NaN
\* and for a number outside [0.3, 2.0]
parseSizeOverride(value) ==
    IF value = None \/ The(value) = <<>> THEN None
    ELSE LET num == parseFloat(The(value))
         IN  IF IsNaN(num) \/ NumLess(num, SIZE_MIN) \/ NumLess(SIZE_MAX, num)
             THEN None
             ELSE Some(num)

-----------------------------------------------------------------------------
(* The query string and CardOptions *)

\* text roles, named by their sz_* query parameter
SzParams == { "sz_title", "sz_level", "sz_username", "sz_bio",
              "sz_stat_label", "sz_stat_value", "sz_bar_label" }

NoSz == [p \in SzParams |-> None]

Query(theme, lang, font, sz) == [theme |-> theme, lang |-> lang, font |-> font, sz |-> sz]

NoQuery == Query(None, None, None, NoSz)

\* sizeOverrides: one entry per role whose parsed value is defined; undefined
\* when no entry was set
SizeOverrides(q) ==
    LET present == { p \in SzParams : parseSizeOverride(q.sz[p]) # None }
    IN  IF present = {} THEN None
        ELSE Some([p \in present |-> The(parseSizeOverride(q.sz[p]))])

\* const options: CardOptions = { theme, lang, font, sizeOverrides }
CardOptions(q) ==
    [ theme |-> IF q.theme = Some("light") THEN "light" ELSE "dark",
      lang  |-> IF q.lang = Some("ja") THEN "ja" ELSE "en",
      font  |-> ValidateFont(q.font),
      sizeOverrides |-> SizeOverrides(q) ]

NoOptions == [theme |-> "none", lang |-> "none", font |-> "none", sizeOverrides |-> None]

-----------------------------------------------------------------------------
(* Responses *)

NoBody == [kind |-> "none", user |-> None, options |-> NoOptions, error |-> "none"]

\* generateRpgCard(user, options): the SVG document, a function of the record
\* and the options alone
generateRpgCard(user, options) ==
    [kind |-> "card", user |-> Some(user), options |-> options, error |-> "none"]

\* createErrorSvg(error, theme): the error card; it reads no user record
createErrorSvg(error, theme) ==
    [kind |-> "error", user |-> None,
     options |-> [NoOptions EXCEPT !.theme = theme], error |-> error]

TextBody(text) ==
    [kind |-> "text", user |-> None, options |-> NoOptions, error |-> text]

\* the preview page for an (escaped) username
PreviewHtml(username) ==
    [kind |-> "html", user |-> Some(UserRecord(username, 0)),
     options |-> [NoOptions EXCEPT !.font = DEFAULT_FONT], error |-> "none"]

Response(status, contentType, cacheControl, body) ==
    [status |-> status, contentType |-> contentType,
     cacheControl |-> cacheControl, body |-> body]

NoResponse == Response(0, "none", "none", NoBody)

\* the status option left out of the error response: it defaults to 200
ErrorCardResponse_Status200(result, options) ==
    Response(200, "image/svg+xml", "no-cache",
             createErrorSvg(result.error, options.theme))

\* the error response sent with the card's caching header
ErrorCardResponse_Cacheable(result, options) ==
    Response(result.status, "image/svg+xml", "public, max-age=300",
             createErrorSvg(result.error, options.theme))

\* new Response(errorSvg, { status: result.status, headers: ... })
ErrorCardResponse(result, options) ==
    Response(result.status, "image/svg+xml", "no-cache",
             createErrorSvg(result.error, options.theme))

\* c.body(svg, 200, { ... })
CardResponse(user, options) ==
    Response(200, "image/svg+xml", "public, max-age=300",
             generateRpgCard(user, options))

\* c.text(text, status)
TextResponse(text, status) == Response(status, "text/plain", "none", TextBody(text))

\* Hono's default error handler, which answers for a handler or middleware
\* that throws
InternalServerError == TextResponse("Internal Server Error", 500)

-----------------------------------------------------------------------------
(* Requests *)

\* the query strings that requests of the main specification carry
Queries ==
    { NoQuery,
      Query(Some("light"), Some("ja"), Some("constructor"),
            [NoSz EXCEPT !["sz_title"] = Some(<<"1", "a">>),
                         !["sz_level"] = Some(<<"3">>),
                         !["sz_bio"] = Some(<<>>)]) }

IdleRequest ==
    [ pc |-> "idle",          \* idle, lookup, fetch, handled, done
      route |-> "none",
      username |-> <<>>,
      query |-> NoQuery,
      options |-> NoOptions,
      user |-> None,          \* let user
      lookup |-> "none",      \* outcome of the cache read: hit, miss, error
      result |-> NoResult,    \* const result = await fetchGitHubUser(...)
      reads |-> 0,            \* cache reads issued
      fetches |-> 0,          \* upstream calls issued
      writes |-> 0,           \* cache writes issued
      write |-> "none",       \* the population task: pending, stored, failed
      analytics |-> "none",   \* the log task: pending, delivered, failed
      resp |-> NoResponse,    \* the response the route handler composed
      final |-> NoResponse,   \* the response the client receives
      hitFrom |-> 0,          \* history: whose population a hit read
      stale |-> FALSE,        \* history: the lookup found an expired entry
      doneBefore |-> {} ]     \* history: requests answered before this began

Init ==
    /\ req = [r \in Requests |-> IdleRequest]
    /\ cache = [u \in Usernames |-> NoEntry]
    /\ upstream = [u \in ValidUsernames |-> IF u = <<"a">> THEN 1 ELSE 0]
    /\ changes = 0
    /\ now = 0
    /\ analyticsBound \in BOOLEAN

Done(r) == req[r].pc = "done"

\* requests are numbered in the order they arrive
Arrives(r) == req[r].pc = "idle" /\ \A o \in Requests : o < r => req[o].pc # "idle"

\* a request arrives: the locals every route handler starts from
Arrive(r, route, username, q) ==
    [ IdleRequest EXCEPT
        !.route = route, !.username = username, !.query = q,
        !.doneBefore = { o \in Requests : Done(o) } ]

-----------------------------------------------------------------------------
(* app.get("/") *)

Health(r) ==
    /\ Arrives(r)
    /\ req' = [req EXCEPT ![r] =
                 [ Arrive(r, "/", <<>>, NoQuery) EXCEPT
                     !.pc = "handled",
                     !.resp = TextResponse("GitHub Profile Card Worker - OK", 200) ]]
    /\ UNCHANGED <<cache, upstream, changes, now, analyticsBound>>

-----------------------------------------------------------------------------
(* app.get("/preview/:username") *)

\* the format test left out: a page is generated for any username
PreviewHandler_NoValidation(rq) ==
    [rq EXCEPT !.pc = "handled",
               !.resp = Response(200, "text/html", "none", PreviewHtml(rq.username))]

PreviewHandler(rq) ==
    IF ~GITHUB_USERNAME_REGEX(rq.username)
    THEN [rq EXCEPT !.pc = "handled",
                    !.resp = TextResponse("Invalid username format", 400)]
    ELSE [rq EXCEPT !.pc = "handled",
                    !.resp = Response(200, "text/html", "none",
                                      PreviewHtml(rq.username))]

Preview(r) ==
    /\ Arrives(r)
    /\ \E username \in Usernames :
          req' = [req EXCEPT ![r] =
                    PreviewHandler(Arrive(r, "/preview", username, NoQuery))]
    /\ UNCHANGED <<cache, upstream, changes, now, analyticsBound>>

-----------------------------------------------------------------------------
(* app.get("/rpg/:username") *)

\* lines 61-97: read the parameters, build the options, start the cache read
RpgStart(rq) ==
    [rq EXCEPT !.pc = "lookup",
               !.options = CardOptions(rq.query),
               !.reads = rq.reads + 1]

Rpg(r) ==
    /\ Arrives(r)
    /\ \E username \in Usernames, q \in Queries :
          req' = [req EXCEPT ![r] = RpgStart(Arrive(r, "/rpg", username, q))]
    /\ UNCHANGED <<cache, upstream, changes, now, analyticsBound>>

\* the guard if (!user) lost: the fetch is issued whatever the cache returned
RpgAfterLookup_AlwaysFetch(rq, cached) == [rq EXCEPT !.pc = "fetch"]

\* lines 97-99 and 122-128: the cache read returns cached (a record or
\* undefined); a record is rendered at once, undefined starts the upstream fetch
RpgAfterLookup(rq, cached) ==
    IF cached # None
    THEN [rq EXCEPT !.pc = "handled",
                    !.user = cached,
                    !.resp = CardResponse(The(cached), rq.options)]
    ELSE [rq EXCEPT !.pc = "fetch"]

RpgCacheLookup(r) ==
    /\ req[r].pc = "lookup"
    /\ \E failed \in BOOLEAN :
          LET cached == getCachedUser(req[r].username, failed)
              seen   == [req[r] EXCEPT
                           !.lookup = IF failed THEN "error"
                                      ELSE IF cached # None THEN "hit" ELSE "miss",
                           !.hitFrom = IF cached # None
                                       THEN cache[req[r].username].writer ELSE 0,
                           !.stale = /\ ~failed
                                     /\ cache[req[r].username].user # None
                                     /\ now >= cache[req[r].username].expiresAt]
          IN  req' = [req EXCEPT ![r] = RpgAfterLookup(seen, cached)]
    /\ UNCHANGED <<cache, upstream, changes, now, analyticsBound>>

\* the population registered before the success check, for a failure too
RpgAfterFetch_WriteOnError(rq, result) ==
    IF ~result.success
    THEN [rq EXCEPT !.pc = "handled",
                    !.result = result,
                    !.writes = rq.writes + 1,
                    !.write = "pending",
                    !.resp = ErrorCardResponse(result, rq.options)]
    ELSE [rq EXCEPT !.pc = "handled",
                    !.result = result,
                    !.user = result.user,
                    !.writes = rq.writes + 1,
                    !.write = "pending",
                    !.resp = CardResponse(The(result.user), rq.options)]

\* await setCachedUser(...) instead of waitUntil: the handler renders only
\* after the write has settled
RpgAfterFetch_AwaitWrite(rq, result) ==
    IF ~result.success
    THEN [rq EXCEPT !.pc = "handled",
                    !.result = result,
                    !.resp = ErrorCardResponse(result, rq.options)]
    ELSE [rq EXCEPT !.pc = "awaitwrite",
                    !.result = result,
                    !.user = result.user,
                    !.writes = rq.writes + 1,
                    !.write = "pending"]

\* a failed fetch is tried again instead of answered
RpgAfterFetch_Retry(rq, result) ==
    IF ~result.success
    THEN [rq EXCEPT !.result = result]
    ELSE [rq EXCEPT !.pc = "handled",
                    !.result = result,
                    !.user = result.user,
                    !.writes = rq.writes + 1,
                    !.write = "pending",
                    !.resp = CardResponse(The(result.user), rq.options)]

\* setCachedUser(...) called without waitUntil: the promise is detached, and
\* the runtime may drop it once the response is sent
RpgAfterFetch_Detached(rq, result) ==
    IF ~result.success
    THEN [rq EXCEPT !.pc = "handled",
                    !.result = result,
                    !.resp = ErrorCardResponse(result, rq.options)]
    ELSE [rq EXCEPT !.pc = "handled",
                    !.result = result,
                    !.user = result.user,
                    !.writes = rq.writes + 1,
                    !.write = "detached",
                    !.resp = CardResponse(The(result.user), rq.options)]

\* lines 101-128: the fetch returns result; a failure is answered with an error
\* card, a success registers the cache population and renders the card
\* the population made to depend on a rendering option: only a card in the
\* default language populates the cache
RpgAfterFetch_LangKeyed(rq, result) ==
    IF ~result.success
    THEN [rq EXCEPT !.pc = "handled",
                    !.result = result,
                    !.resp = ErrorCardResponse(result, rq.options)]
    ELSE IF rq.options.lang = "en"
    THEN [rq EXCEPT !.pc = "handled",
                    !.result = result,
                    !.user = result.user,
                    !.writes = rq.writes + 1,
                    !.write = "pending",
                    !.resp = CardResponse(The(result.user), rq.options)]
    ELSE [rq EXCEPT !.pc = "handled",
                    !.result = result,
                    !.user = result.user,
                    !.resp = CardResponse(The(result.user), rq.options)]

RpgAfterFetch(rq, result) ==
    IF ~result.success
    THEN [rq EXCEPT !.pc = "handled",
                    !.result = result,
                    !.resp = ErrorCardResponse(result, rq.options)]
    ELSE [rq EXCEPT !.pc = "handled",
                    !.result = result,
                    !.user = result.user,
                    !.writes = rq.writes + 1,
                    !.write = "pending",
                    !.resp = CardResponse(The(result.user), rq.options)]

RpgFetch(r) ==
    /\ req[r].pc = "fetch"
    /\ \E result \in fetchGitHubUser(req[r].username) :
          req' = [req EXCEPT ![r] =
                    [ RpgAfterFetch(req[r], result) EXCEPT
                        !.fetches = req[r].fetches + (IF result.network THEN 1 ELSE 0) ]]
    /\ UNCHANGED <<cache, upstream, changes, now, analyticsBound>>

\* a rejected write reaching the client: the response becomes the error
\* handler's
PopulationSettles_Surface(rq, ok) ==
    [rq EXCEPT !.write = IF ok THEN "stored" ELSE "failed",
               !.resp = IF ok THEN rq.resp ELSE InternalServerError]

\* the population stores a record other than the one the request rendered
StoredRecord_Other(rq) ==
    UserRecord(rq.username, The(rq.user).version + 1)

\* setCachedUser(c.env.GITHUB_CACHE, username, user): the record handed over
StoredRecord(rq) == The(rq.user)

\* lines 117-119: the population registered with waitUntil settles.  A stored
\* write replaces the entry under the request's username; a failed one changes
\* nothing.
PopulationSettles(rq, ok) ==
    [rq EXCEPT !.write = IF ok THEN "stored" ELSE "failed"]

\* the stored entry patched in place: the record changes, the entry's expiry
\* stays what it was
CacheWrite_InPlace(r) ==
    /\ req[r].write = "pending"
    /\ \E ok \in BOOLEAN :
          /\ req' = [req EXCEPT ![r] = PopulationSettles(req[r], ok)]
          /\ cache' = IF ok
                      THEN [cache EXCEPT ![req[r].username].user = req[r].user,
                                         ![req[r].username].writer = r]
                      ELSE cache
    /\ UNCHANGED <<upstream, changes, now, analyticsBound>>

\* the entry written under a key other than the request's username
CacheWrite_OtherKey(r) ==
    /\ req[r].write = "pending"
    /\ \E ok \in BOOLEAN :
          /\ req' = [req EXCEPT ![r] = PopulationSettles(req[r], ok)]
          /\ cache' = IF ok
                      THEN setCachedUser(
                              CHOOSE u \in ValidUsernames : u # req[r].username,
                              StoredRecord(req[r]), r)
                      ELSE cache
    /\ UNCHANGED <<upstream, changes, now, analyticsBound>>

\* the entry written only when the key holds none: a later write is dropped
CacheWrite_IfAbsent(r) ==
    /\ req[r].write = "pending"
    /\ \E ok \in BOOLEAN :
          /\ req' = [req EXCEPT ![r] = PopulationSettles(req[r], ok)]
          /\ cache' = IF ok /\ cache[req[r].username].user = None
                      THEN setCachedUser(req[r].username, StoredRecord(req[r]), r)
                      ELSE cache
    /\ UNCHANGED <<upstream, changes, now, analyticsBound>>

CacheWrite(r) ==
    /\ req[r].write = "pending"
    /\ \E ok \in BOOLEAN :
          /\ req' = [req EXCEPT ![r] = PopulationSettles(req[r], ok)]
          /\ cache' = IF ok
                      THEN setCachedUser(req[r].username, StoredRecord(req[r]), r)
                      ELSE cache
    /\ UNCHANGED <<upstream, changes, now, analyticsBound>>

-----------------------------------------------------------------------------
(* app.use("*"): the analytics middleware *)

\* lines 12-43, after await next(): read the request's headers and hand the
\* log call to waitUntil.  c.env.ANALYTICS.fetch throws a TypeError when the
\* binding is not there, and Hono answers a middleware that throws with its
\* error handler's response.
AfterNext(rq, bound) ==
    IF bound
    THEN [rq EXCEPT !.pc = "done", !.analytics = "pending", !.final = rq.resp]
    ELSE [rq EXCEPT !.pc = "done", !.final = InternalServerError]

Middleware(r) ==
    /\ req[r].pc = "handled"
    /\ req' = [req EXCEPT ![r] = AfterNext(req[r], analyticsBound)]
    /\ UNCHANGED <<cache, upstream, changes, now, analyticsBound>>

\* lines 26-42: the log call settles; a rejection is caught and dropped
LogSettles(rq, ok) ==
    [rq EXCEPT !.analytics = IF ok THEN "delivered" ELSE "failed"]

AnalyticsLog(r) ==
    /\ req[r].analytics = "pending"
    /\ \E ok \in BOOLEAN : req' = [req EXCEPT ![r] = LogSettles(req[r], ok)]
    /\ UNCHANGED <<cache, upstream, changes, now, analyticsBound>>

-----------------------------------------------------------------------------
(* The environment *)

\* time passes; the store drops an entry once its TTL has elapsed
Tick ==
    /\ now < MaxTime
    /\ now' = now + 1
    /\ UNCHANGED <<req, cache, upstream, changes, analyticsBound>>

\* an account is created or its profile is edited upstream
UpstreamChange ==
    /\ changes < MaxChanges
    /\ changes' = changes + 1
    /\ \E u \in ValidUsernames :
          upstream' = [upstream EXCEPT ![u] = upstream[u] + 1]
    /\ UNCHANGED <<req, cache, now, analyticsBound>>

Next ==
    \/ \E r \in Requests : Health(r)
    \/ \E r \in Requests : Preview(r)
    \/ \E r \in Requests : Rpg(r)
    \/ \E r \in Requests : RpgCacheLookup(r)
    \/ \E r \in Requests : RpgFetch(r)
    \/ \E r \in Requests : CacheWrite(r)
    \/ \E r \in Requests : Middleware(r)
    \/ \E r \in Requests : AnalyticsLog(r)
    \/ Tick
    \/ UpstreamChange

Spec == Init /\ [][Next]_vars

-----------------------------------------------------------------------------
(* The option parsing over every value of one parameter: a single /rpg       *)
(* request whose query sets one sz_* parameter to any string of at most      *)
(* MaxSzLen characters, or font, theme or lang to any of their values.       *)

SzStrings == UNION { [1..k -> SzChars] : k \in 0..MaxSzLen }

FontParams ==
    {None} \cup { Some(f) : f \in FONTS \cup ObjectPrototypeProps \cup {"", "comic-sans"} }

WideQueries ==
    { [NoQuery EXCEPT !.sz[p] = Some(s)] : p \in SzParams, s \in SzStrings }
      \cup { [NoQuery EXCEPT !.font = f] : f \in FontParams }
      \cup { [NoQuery EXCEPT !.theme = Some(t), !.lang = Some(l)] :
               t \in {"light", "dark", "blue"}, l \in {"ja", "en", "fr"} }

RpgOptions(r) ==
    /\ Arrives(r)
    /\ \E q \in WideQueries :
          req' = [req EXCEPT ![r] = RpgStart(Arrive(r, "/rpg", <<"a">>, q))]
    /\ UNCHANGED <<cache, upstream, changes, now, analyticsBound>>

NextOptions ==
    \/ RpgOptions(1)
    \/ RpgCacheLookup(1)
    \/ RpgFetch(1)
    \/ Middleware(1)

SpecOptions == Init /\ [][NextOptions]_vars

-----------------------------------------------------------------------------
(* Properties *)

RpgRequests == { r \in Requests : req[r].route = "/rpg" }

\* the route handler has composed its response
Handled(r) == req[r].pc \in {"handled", "done"}

\* C1: a /rpg request whose username violates the grammar is answered 400 and
\* issues no upstream call, no cache read and no cache write.
C1_InvalidUsernameTouchesNothing ==
    \A r \in RpgRequests :
        ~GITHUB_USERNAME_REGEX(req[r].username) =>
            /\ req[r].fetches = 0
            /\ req[r].reads = 0
            /\ req[r].writes = 0
            /\ Handled(r) => req[r].resp.status = 400

\* C2: a /rpg request whose cache lookup returned a record issues no upstream
\* fetch and no cache write, and answers 200 with the card of the cached record
\* (the record that the populating request stored).
C2_HitSkipsUpstream ==
    \A r \in RpgRequests :
        req[r].lookup = "hit" =>
            /\ Handled(r)
            /\ req[r].fetches = 0
            /\ req[r].result = NoResult
            /\ req[r].writes = 0
            /\ req[r].write = "none"
            /\ req[r].hitFrom \in Requests
            /\ req[r].resp =
                 CardResponse(The(req[req[r].hitFrom].result.user), req[r].options)
            /\ req[r].resp.status = 200

C2_Witness ==
    \E r \in RpgRequests : req[r].lookup = "hit" /\ Done(r)

\* the population whose record request r rendered: its own, or on a hit the
\* one that stored the entry it read
Source(r) == IF req[r].lookup = "hit" THEN req[r].hitFrom ELSE r

\* two successive /rpg requests for the same username, the first answered
\* with a card
Successive(r1, r2) ==
    /\ r1 \in RpgRequests
    /\ r2 \in RpgRequests
    /\ r1 \in req[r2].doneBefore
    /\ req[r1].username = req[r2].username
    /\ req[r1].resp.status = 200

C4_WriteOnlyAfterMissAndSuccess ==
    /\ \A r \in RpgRequests :
          /\ (req[r].writes > 0 \/ req[r].write # "none") =>
                /\ req[r].lookup \in {"miss", "error"}
                /\ req[r].result.success
                /\ req[r].writes = 1
          /\ (req[r].result # NoResult /\ ~req[r].result.success) =>
                /\ Handled(r)
                /\ req[r].resp.status = req[r].result.status
                /\ req[r].resp.body = createErrorSvg(req[r].result.error,
                                                     req[r].options.theme)
                /\ req[r].writes = 0
                /\ req[r].write = "none"
    /\ \A u \in Usernames :
          cache[u] # NoEntry =>
             /\ cache[u].writer \in RpgRequests
             /\ req[cache[u].writer].result.success
             /\ req[cache[u].writer].lookup \in {"miss", "error"}

C4_Witness ==
    \E r \in RpgRequests :
        /\ Done(r)
        /\ req[r].result.error = "NotFound"
        /\ req[r].resp.status = 404
        /\ req[r].fetches = 1

FailureKinds == {"NotFound", "RateLimited", "UpstreamError", "InvalidUsername"}

\* C5: every response of the /rpg handler is image/svg+xml and is a card or an
\* error card; it is a card with status 200 exactly on a hit or a successful
\* fetch, and otherwise an error card for the failure kind that carries the
\* failure's HTTP status.
C5_AlwaysSvgWithOutcomeStatus ==
    \A r \in RpgRequests :
        Handled(r) =>
            LET card == req[r].lookup = "hit" \/ req[r].result.success
            IN  /\ req[r].resp.contentType = "image/svg+xml"
                /\ req[r].resp.body.kind \in {"card", "error"}
                /\ (req[r].resp.body.kind = "card") <=> card
                /\ (req[r].resp.status = 200) <=> card
                /\ ~card =>
                     /\ req[r].result.error \in FailureKinds
                     /\ req[r].resp.body.error = req[r].result.error
                     /\ req[r].resp.status = req[r].result.status

C5_Witness ==
    \E r1, r2 \in RpgRequests :
        /\ Done(r1) /\ req[r1].result.success
        /\ req[r1].resp.status = 200 /\ req[r1].resp.body.kind = "card"
        /\ Done(r2) /\ req[r2].result.error = "RateLimited"
        /\ req[r2].resp.status = 429 /\ req[r2].resp.body.kind = "error"

\* C6: after a miss and a successful fetch the handler has composed its
\* response as soon as the population is registered, and that response is the
\* card of the fetched record whether the population is pending, stored or
\* failed.
C6_ResponseDoesNotAwaitPopulation ==
    \A r \in RpgRequests :
        req[r].write \in {"pending", "stored", "failed"} =>
            /\ Handled(r)
            /\ req[r].resp = CardResponse(The(req[r].result.user), req[r].options)

\* the client has its response while the population is still pending
C6_Witness ==
    \E r \in RpgRequests :
        /\ Done(r)
        /\ req[r].write = "pending"
        /\ req[r].final = req[r].resp
        /\ req[r].resp.status = 200

\* the response a miss leads to, given what the fetch returned
MissResponse(r) ==
    IF req[r].result.success
    THEN CardResponse(The(req[r].result.user), req[r].options)
    ELSE ErrorCardResponse(req[r].result, req[r].options)

\* C7: a cache backend failure never reaches the client: a request whose cache
\* read failed proceeds to the fetch and answers as for a miss, and a failed
\* cache write leaves the response as it was.
C7_CacheFailureAbsorbed ==
    \A r \in RpgRequests :
        /\ req[r].lookup = "error" =>
              /\ req[r].pc \in {"fetch", "handled", "done"}
              /\ Handled(r) =>
                    /\ req[r].result # NoResult
                    /\ req[r].resp = MissResponse(r)
        /\ req[r].write = "failed" =>
              /\ Handled(r)
              /\ req[r].resp = MissResponse(r)
              /\ req[r].resp.status = 200

C7_Witness ==
    \E r \in RpgRequests :
        /\ Done(r)
        /\ req[r].lookup = "error"
        /\ req[r].write = "failed"
        /\ req[r].resp.status = 200

\* C8: on every route the analytics log is dispatched only after the route
\* handler has composed the response, and neither a failing nor an absent
\* analytics sink changes the status or body the client receives.
C8_AnalyticsNeverChangesResponse ==
    \A r \in Requests :
        /\ req[r].analytics # "none" => (req[r].resp # NoResponse /\ Done(r))
        /\ Done(r) => req[r].final = req[r].resp

\* the whole string is a decimal numeral: an optional sign, digits with at
\* most one point among them, at least one digit
IsDecimalString(s) ==
    /\ \A i \in 1..Len(s) :
          \/ s[i] \in Digits
          \/ s[i] = "." /\ \A j \in 1..Len(s) : s[j] = "." => j = i
          \/ s[i] = "-" /\ i = 1
    /\ \E i \in 1..Len(s) : s[i] \in Digits

InRange(x) == ~NumLess(x, SIZE_MIN) /\ ~NumLess(SIZE_MAX, x)

\* the role of parameter p has an entry in the options of request r
HasOverride(r, p) ==
    /\ req[r].options.sizeOverrides # None
    /\ p \in DOMAIN The(req[r].options.sizeOverrides)

\* C9: every entry of sizeOverrides is a number in [0.3, 2.0]; an absent,
\* empty, non-numeric or out-of-range sz_* value leaves its role without an
\* entry, and the status is the one the lookup and the fetch decide.
C9_SizeOverridesInRangeOrAbsent ==
    \A r \in RpgRequests :
        /\ \A p \in SzParams :
              LET v == req[r].query.sz[p]
              IN  /\ HasOverride(r, p) =>
                        InRange(The(req[r].options.sizeOverrides)[p])
                  /\ (\/ v = None
                      \/ ~IsDecimalString(The(v))
                      \/ ~InRange(parseFloat(The(v)))) => ~HasOverride(r, p)
        /\ Handled(r) =>
              req[r].resp.status =
                 (IF req[r].lookup = "hit" \/ req[r].result.success
                  THEN 200 ELSE req[r].result.status)

\* C10: the font handed to the renderer is a key of the font registry: the
\* requested key when the registry has it, the default font otherwise.
C10_FontIsRegistryKey ==
    \A r \in RpgRequests :
        LET f == req[r].query.font
        IN  /\ req[r].options.font \in FONTS
            /\ (f # None /\ The(f) \in FONTS) => req[r].options.font = The(f)
            /\ (f = None \/ The(f) \notin FONTS) => req[r].options.font = DEFAULT_FONT

PreviewRequests == { r \in Requests : req[r].route = "/preview" }

\* C11: a /preview request whose username violates the grammar is answered
\* 400 with no page generated, a well-formed one gets the page, and no
\* /preview request reads or writes the cache or calls upstream.
C11_PreviewValidatesAndTouchesNothing ==
    /\ \A r \in PreviewRequests :
          /\ req[r].reads = 0
          /\ req[r].fetches = 0
          /\ req[r].writes = 0
          /\ req[r].write = "none"
          /\ req[r].lookup = "none"
          /\ req[r].result = NoResult
          /\ Handled(r)
          /\ IF GITHUB_USERNAME_REGEX(req[r].username)
             THEN req[r].resp.status = 200 /\ req[r].resp.body.kind = "html"
             ELSE req[r].resp.status = 400 /\ req[r].resp.body.kind = "text"
    /\ \A u \in Usernames : cache[u].writer \notin PreviewRequests

C11_Witness ==
    \E r \in PreviewRequests :
        /\ Done(r)
        /\ ~GITHUB_USERNAME_REGEX(req[r].username)
        /\ req[r].resp.status = 400

\* C12: a /rpg request issues at most one upstream fetch, does not fetch again
\* after a failure, and fetches only after its own cache lookup has completed
\* without a record.
C12_SingleFetchAfterLookup ==
    \A r \in RpgRequests :
        /\ req[r].fetches <= 1
        /\ (req[r].pc = "fetch" \/ req[r].result # NoResult) =>
              req[r].lookup \in {"miss", "error"}
        /\ req[r].pc = "fetch" => req[r].result = NoResult
        /\ req[r].result # NoResult =>
              /\ Handled(r)
              /\ req[r].fetches = (IF req[r].result.network THEN 1 ELSE 0)
        /\ req[r].lookup = "none" => (req[r].fetches = 0 /\ req[r].result = NoResult)

\* a failed fetch answered without a second attempt
C12_Witness ==
    \E r \in RpgRequests :
        /\ Done(r)
        /\ req[r].lookup = "miss"
        /\ ~req[r].result.success
        /\ req[r].result.network
        /\ req[r].fetches = 1

\* the population of request r is stored by this step
Stores(r) == req[r].write = "pending" /\ req'[r].write = "stored"

\* the entry a stored population of request r leaves under its username
EntryOf(r) ==
    [user |-> req[r].result.user, expiresAt |-> now + CACHE_TTL, writer |-> r]

\* a request whose lookup found an expired entry goes on as for a miss
ExpiredIsMiss ==
    \A r \in RpgRequests :
        req[r].stale =>
            /\ req[r].lookup = "miss"
            /\ req[r].hitFrom = 0
            /\ req[r].pc \in {"fetch", "handled", "done"}
            /\ Handled(r) =>
                  /\ req[r].result # NoResult
                  /\ req[r].fetches = 1
                  /\ req[r].resp = MissResponse(r)
                  /\ req[r].result.success => req[r].write # "none"

\* an entry changes only by being replaced whole with the record a request
\* for that key fetched
ReplacedWholesale ==
    \A u \in Usernames :
        cache'[u] # cache[u] =>
            \E r \in RpgRequests :
                /\ req[r].username = u
                /\ Stores(r)
                /\ req[r].result.success
                /\ cache'[u] = EntryOf(r)

\* C13: a /rpg request that finds its entry expired behaves as on a miss (it
\* fetches, and on success registers a population), and a cache entry is never
\* changed in place: it only changes by being replaced whole with a newly
\* fetched record.
C13_ExpiredIsMissAndReplacedWholesale ==
    []ExpiredIsMiss /\ [][ReplacedWholesale]_vars

\* an expired entry has been replaced by the record the next request fetched
C13_Witness ==
    \E r \in RpgRequests :
        /\ req[r].stale
        /\ req[r].write = "stored"
        /\ cache[req[r].username].writer = r
        /\ cache[req[r].username].user = req[r].result.user

\* two /rpg requests for the same username, neither answered before the
\* other began, whose lookups both returned no record
ConcurrentMisses(r1, r2) ==
    /\ r1 \in RpgRequests
    /\ r2 \in RpgRequests
    /\ r1 # r2
    /\ req[r1].username = req[r2].username
    /\ r1 \notin req[r2].doneBefore
    /\ r2 \notin req[r1].doneBefore
    /\ req[r1].lookup \in {"miss", "error"}
    /\ req[r2].lookup \in {"miss", "error"}

\* no step of a request waits for another request: whatever the others are
\* doing, its pending lookup, fetch, population and middleware can proceed
NeverWaits ==
    \A r \in RpgRequests :
        /\ req[r].pc = "lookup" => ENABLED RpgCacheLookup(r)
        /\ req[r].pc = "fetch" => ENABLED RpgFetch(r)
        /\ req[r].pc = "handled" => ENABLED Middleware(r)
        /\ req[r].write = "pending" => ENABLED CacheWrite(r)

\* each of two concurrent misses has its own fetch and, on success, its own
\* population and its own response
OwnFetchAndWrite ==
    \A r1, r2 \in Requests :
        (ConcurrentMisses(r1, r2) /\ Handled(r1)) =>
            /\ req[r1].fetches = (IF req[r1].result.network THEN 1 ELSE 0)
            /\ req[r1].resp = MissResponse(r1)
            /\ req[r1].result.success =>
                  (req[r1].writes = 1 /\ req[r1].write # "none")

\* a population that is stored leaves its own record under the key, whatever
\* the key held before
LastWriterWins ==
    \A r \in RpgRequests :
        Stores(r) => cache'[req[r].username] = EntryOf(r)

\* C14: two /rpg requests for the same username that both miss concurrently
\* do not wait for each other; each issues its own fetch and its own cache
\* write and responds, and each write that completes leaves its record in the
\* cache, so after both the cache holds the record of the write that completed
\* last.
C14_ConcurrentMissesLastWriterWins ==
    [](NeverWaits /\ OwnFetchAndWrite) /\ [][LastWriterWins]_vars

\* both populations stored, different records, the first arrival's write last
C14_Witness ==
    \E r1, r2 \in Requests :
        /\ ConcurrentMisses(r1, r2)
        /\ r1 < r2
        /\ Done(r1) /\ Done(r2)
        /\ req[r1].write = "stored" /\ req[r2].write = "stored"
        /\ req[r1].user # req[r2].user
        /\ cache[req[r1].username].writer = r1
        /\ cache[req[r1].username].user = req[r1].user

\* a hit returned the entry stored under the request's own username
ReadsOwnKey ==
    \A r \in RpgRequests :
        req[r].lookup = "hit" =>
            /\ req[r].hitFrom \in RpgRequests
            /\ req[req[r].hitFrom].username = req[r].username
            /\ The(req[r].user).login = req[r].username

\* a step of a request changes no entry under a key other than its username,
\* and an entry changes only through a request for its key
WritesOwnKey ==
    /\ \A r \in Requests, u \in Usernames :
          (req'[r] # req[r] /\ u # req[r].username /\ req[r].pc # "idle") =>
              cache'[u] = cache[u]
    /\ \A u \in Usernames :
          cache'[u] # cache[u] =>
              \E r \in RpgRequests : req[r].username = u /\ Stores(r)

\* C15: under any interleaving, a /rpg request for username k reads and
\* writes only the cache entry keyed k; every entry under another key is left
\* unchanged by it.
C15_OnlyOwnKeyTouched ==
    []ReadsOwnKey /\ [][WritesOwnKey]_vars

\* entries under two different keys, each stored by the request for that key
C15_Witness ==
    \E u1, u2 \in Usernames :
        /\ u1 # u2
        /\ cache[u1] # NoEntry /\ cache[u2] # NoEntry
        /\ req[cache[u1].writer].username = u1
        /\ req[cache[u2].writer].username = u2
        /\ The(cache[u1].user).login = u1
        /\ The(cache[u2].user).login = u2

-----------------------------------------------------------------------------
(* waitUntil keeps the worker alive until the promise it was given settles:  *)
(* a registered population is eventually run to its end.                     *)

SpecLive == Spec /\ \A r \in Requests : WF_vars(CacheWrite(r))

\* a population has settled only after the handler composed its response
SettlesAfterResponse ==
    \A r \in RpgRequests :
        req[r].write \in {"stored", "failed"} =>
            (Handled(r) /\ req[r].resp.status = 200)

\* a stored population makes the record readable under the username
StoredIsReadable ==
    \A r \in RpgRequests :
        Stores(r) =>
            /\ cache'[req[r].username].user = req[r].result.user
            /\ now < cache'[req[r].username].expiresAt

\* C16: the population started on a successful fetch is not abandoned when
\* the response is sent: it eventually settles, stored or failed, after the
\* handler responded, and once stored the record is readable under the
\* requested username.
C16_PopulationEventuallySettles ==
    /\ \A r \in Requests :
          req[r].result.success ~> (req[r].write \in {"stored", "failed"})
    /\ []SettlesAfterResponse
    /\ [][StoredIsReadable]_vars

\* the response was sent first and the population stored afterwards
C16_Witness ==
    \E r \in RpgRequests :
        /\ Done(r)
        /\ req[r].write = "stored"
        /\ cache[req[r].username].writer = r
        /\ getCachedUser(req[r].username, FALSE) = req[r].user

-----------------------------------------------------------------------------
(* Caching headers *)

CARD_CACHE_CONTROL == "public, max-age=300"

ERROR_CACHE_CONTROL == "no-cache"

\* the /rpg responses: what the handler composed and what the client received
RpgResponses ==
    { req[r].resp : r \in { h \in RpgRequests : Handled(h) } }
        \cup { req[r].final : r \in { d \in RpgRequests : Done(d) } }

\* C17: every card response of /rpg has status 200 and carries Cache-Control:
\* public, max-age=300; every error-card response carries Cache-Control:
\* no-cache, so no error card is marked cacheable.
C17_CardsCacheableErrorsNot ==
    \A resp \in RpgResponses :
        /\ resp.body.kind = "card" =>
              (resp.status = 200 /\ resp.cacheControl = CARD_CACHE_CONTROL)
        /\ resp.body.kind = "error" =>
              resp.cacheControl = ERROR_CACHE_CONTROL
        /\ resp.cacheControl = CARD_CACHE_CONTROL => resp.body.kind = "card"

\* a client received a cacheable card of a fetched record and another a
\* no-cache 404 error card for an account that does not exist
C17_Witness ==
    \E r1, r2 \in RpgRequests :
        /\ Done(r1) /\ req[r1].lookup = "miss" /\ req[r1].result.success
        /\ req[r1].final.body.kind = "card"
        /\ req[r1].final.cacheControl = CARD_CACHE_CONTROL
        /\ Done(r2) /\ req[r2].result.error = "NotFound"
        /\ req[r2].final.body.kind = "error"
        /\ req[r2].final.status = 404
        /\ req[r2].final.cacheControl = ERROR_CACHE_CONTROL

-----------------------------------------------------------------------------
(* What the cache holds *)

\* the request whose population stored the entry under username
Writer(username) == cache[username].writer

\* C18: every cache entry stored under key k is the record a successful
\* upstream fetch returned to a /rpg request for username k; the cache never
\* holds a failure outcome or a record fetched for another username.
C18_CacheHoldsOnlyFetchedRecords ==
    \A u \in Usernames :
        IF cache[u] = NoEntry
        THEN TRUE
        ELSE /\ Writer(u) \in RpgRequests
             /\ req[Writer(u)].username = u
             /\ req[Writer(u)].lookup \in {"miss", "error"}
             /\ req[Writer(u)].result.success
             /\ req[Writer(u)].result.network
             /\ req[Writer(u)].fetches = 1
             /\ req[Writer(u)].write = "stored"
             /\ cache[u].user # None
             /\ cache[u].user = req[Writer(u)].result.user
             /\ The(cache[u].user).login = u

\* a request for an account that did not exist yet got NotFound and stored
\* nothing; the entry under the key is the record a later request fetched
C18_Witness ==
    \E r1, r2 \in RpgRequests :
        /\ req[r1].username = req[r2].username
        /\ Done(r1) /\ req[r1].result.error = "NotFound" /\ req[r1].write = "none"
        /\ req[r2].result.success /\ req[r2].write = "stored"
        /\ Writer(req[r2].username) = r2
        /\ cache[req[r2].username].user = req[r2].result.user

-----------------------------------------------------------------------------
(* Rendering options and the handler's effects *)

\* a body without the part the rendering options decide
LowBody(body) == [body EXCEPT !.options = NoOptions]

LowResponse(resp) == [resp EXCEPT !.body = LowBody(resp.body)]

\* a request without its rendering options: what is left are its cache reads,
\* upstream calls, cache writes, and its response's status, headers and
\* record
Low(rq) ==
    [rq EXCEPT !.query = NoQuery,
               !.options = NoOptions,
               !.resp = LowResponse(rq.resp),
               !.final = LowResponse(rq.final)]

\* the same request, had it arrived with query q
WithQuery(rq, q) == [rq EXCEPT !.query = q, !.options = CardOptions(q)]

\* each step of the handler, taken from the present state by the request as it
\* is and by the same request with other options, ends in the same place
\* apart from the options
OptionsUnwinding ==
    \A r \in Requests :
        /\ Arrives(r) =>
              \A u \in Usernames, q1, q2 \in Queries :
                  Low(RpgStart(Arrive(r, "/rpg", u, q1)))
                      = Low(RpgStart(Arrive(r, "/rpg", u, q2)))
        /\ r \in RpgRequests =>
              \A q \in Queries :
                  LET other == WithQuery(req[r], q)
                  IN  /\ req[r].pc = "lookup" =>
                            \A failed \in BOOLEAN :
                                LET cached == getCachedUser(req[r].username, failed)
                                IN  Low(RpgAfterLookup(req[r], cached))
                                        = Low(RpgAfterLookup(other, cached))
                      /\ req[r].pc = "fetch" =>
                            \A result \in fetchGitHubUser(req[r].username) :
                                Low(RpgAfterFetch(req[r], result))
                                    = Low(RpgAfterFetch(other, result))
                      /\ req[r].write = "pending" =>
                            /\ StoredRecord(req[r]) = StoredRecord(other)
                            /\ \A ok \in BOOLEAN :
                                  Low(PopulationSettles(req[r], ok))
                                      = Low(PopulationSettles(other, ok))

\* the cache and the upstream answered both requests alike
SameAnswers(r1, r2) ==
    /\ req[r1].username = req[r2].username
    /\ req[r1].lookup = req[r2].lookup
    /\ req[r1].lookup = "hit" => req[r1].user = req[r2].user
    /\ req[r1].result = req[r2].result

\* two answered requests for one username that the cache and the upstream
\* answered alike agree on everything but the options
AnsweredAlike ==
    \A r1, r2 \in RpgRequests :
        (Handled(r1) /\ Handled(r2) /\ SameAnswers(r1, r2)) =>
            /\ req[r1].reads = req[r2].reads
            /\ req[r1].fetches = req[r2].fetches
            /\ req[r1].writes = req[r2].writes
            /\ req[r1].user = req[r2].user
            /\ LowResponse(req[r1].resp) = LowResponse(req[r2].resp)

\* C19: for two /rpg requests with the same username against the same cache
\* and upstream state but with different rendering options, the cache reads,
\* upstream calls, cache writes and response status are identical; the
\* options influence the response body alone.
C19_OptionsInfluenceOnlyTheBody ==
    OptionsUnwinding /\ AnsweredAlike

\* two requests for one username with different options: both missed, both
\* fetched the same record and registered a population, both answered 200,
\* with different cards
C19_Witness ==
    \E r1, r2 \in RpgRequests :
        /\ r1 # r2
        /\ Handled(r1) /\ Handled(r2)
        /\ req[r1].options # req[r2].options
        /\ SameAnswers(r1, r2)
        /\ req[r1].result.success
        /\ req[r1].writes = 1 /\ req[r2].writes = 1
        /\ req[r1].resp.status = 200 /\ req[r2].resp.status = 200
        /\ req[r1].resp.body # req[r2].resp.body
        /\ LowResponse(req[r1].resp) = LowResponse(req[r2].resp)

=============================================================================
